---- MODULE Spec2Model ----
(***************************************************************************)
(* IecSerial (src/iecserial.cpp, src/iecserial.h): the controller side of  *)
(* the Commodore IEC serial bus, as a state machine.                       *)
(*                                                                         *)
(* The controller is one synchronous thread of control.  Its position is   *)
(* the call stack stk (top first); every frame is <<function, label>>.     *)
(* One action models one statement of the source (a line operation, a      *)
(* delay, a poll of a wait loop, a call or a return).  The attached        *)
(* devices are the environment: between any two controller steps a device  *)
(* may pull Clock or Data low or let it go.                                *)
(*                                                                         *)
(* The port registers are sets of lines: a line is in DDRD when its pin is *)
(* an output and in PORTD when its port bit is 1.                          *)
(***************************************************************************)
EXTENDS Integers, Sequences, FiniteSets, TLC

\* ------------------------------------------------------------------------
\* Program constants (src/iecserial.h)
\* ------------------------------------------------------------------------
CMD_LISTEN == 32
CMD_TALK == 64
CMD_UNTALK == 95
CMD_UNLISTEN == 63
CMD_SECONDARY == 96

STATUS_OK == 0
STATUS_TIMEOUT == 1
STATUS_FRAMMING_ERROR == 4
STATUS_NO_DEVICE == 128

TIME_TAT == 1000
TIME_TNE == 40
TIME_TS == 70
TIME_TV == 20
TIME_TF == 1000
TIME_TR == 20
TIME_TBB == 100
TIME_TYE == 250
TIME_TEI == 500
TIME_TRY == 30
TIME_TTK == 30
TIME_TDC == 30
TIME_TDA == 100
\* Turnaround's literal acknowledge timeout and Reset's literal pulse width
TURNAROUND_TIMEOUT == 1000
RESET_PULSE == 1000
\* pad = 0 - 30, sad = 0 - 31 (header comment of iecserial.cpp)
MaxPad == 30
MaxSad == 31

\* ------------------------------------------------------------------------
\* Bounds of the model
\* ------------------------------------------------------------------------
\* microseconds that pass between two polls of a wait loop / steps of a delay
Tick == 250
\* longest byte array handed to Send(data[], length, eoi) and Command(cmd[], length)
MaxLen == 2

\* micros() is an unsigned long (32 bits on the AVR target).  The model checker's
\* integers are 32 bits signed, so the counter is modelled ClockBits wide; the
\* arithmetic mod 2^ClockBits is that of the source for every width whose
\* range exceeds the longest timeout plus one Tick
ClockBits == 16
ULongMod == 2 ^ ClockBits

\* the five bus lines; srqBit, atnBit, clkBit, dioBit, rstBit are their masks
srqBit == {"srq"}
atnBit == {"atn"}
clkBit == {"clk"}
dioBit == {"dio"}
rstBit == {"rst"}
Lines == srqBit \cup atnBit \cup clkBit \cup dioBit \cup rstBit
\* lines a device may pull low
DevLines == clkBit \cup dioBit

\* micros() values at which a wait may start: far from and next to the wrap
StartTimes == {0, ULongMod - Tick}

\* data bytes, command bytes, addresses, arrays and strings given by the caller
DataBytes == {77, 178}
CmdBytes == {40, 95}
Pads == 0 .. MaxPad
Sads == 0 .. MaxSad
AddrPairs == {<<4, 7>>, <<30, 31>>}
SeqsUpTo(S, n) == UNION {[1 .. k -> S] : k \in 0 .. n}
Arrays == SeqsUpTo(DataBytes, MaxLen)
CmdArrays == SeqsUpTo(CmdBytes, MaxLen)
Strings == {Append(a, 0) : a \in SeqsUpTo({65}, MaxLen)}

VARIABLES
    DDRD,      \* lines whose pin is an output
    PORTD,     \* lines whose port bit is 1 (pull-up on when input)
    dev,       \* lines pulled low by the attached devices
    m_status,  \* IecSerial::m_status
    stk,       \* call stack, top first; <<>> when no public call is running
    ret,       \* value returned by the last bool function that returned
    op,        \* the public call running (or the last one that returned): its name and arguments
    loc,       \* locals and arguments of the active functions
    gh,        \* history of the running public call (observation only)
    rx         \* a bus partner running GetBits: its position, data and bit

vars == <<DDRD, PORTD, dev, m_status, stk, ret, op, loc, gh, rx>>

\* ------------------------------------------------------------------------
\* Arithmetic of the source
\* ------------------------------------------------------------------------
RECURSIVE BitOr(_, _)
BitOr(a, b) ==
    IF a = 0 THEN b
    ELSE IF b = 0 THEN a
    ELSE (IF a % 2 = 1 \/ b % 2 = 1 THEN 1 ELSE 0) + 2 * BitOr(a \div 2, b \div 2)

U8(x) == x % 256

\* Faulty variant of ULongSub: the difference taken without the wraparound
ULongSub_NoWrap(a, b) == a - b

\* unsigned long subtraction: micros() - initialTime
ULongSub(a, b) == (a - b + ULongMod) % ULongMod

RECURSIVE strlen(_)
strlen(s) == IF s = <<>> \/ Head(s) = 0 THEN 0 ELSE 1 + strlen(Tail(s))

\* ------------------------------------------------------------------------
\* Bus levels
\* ------------------------------------------------------------------------
\* lines the controller pulls low: output pin with port bit 0
Driven == {l \in Lines : l \in DDRD /\ l \notin PORTD}
\* PIND: lines that read high (nobody pulls them low)
PIND == Lines \ (Driven \cup dev)

\* Faulty variant of isAsserted: true as soon as one queried line reads low
isAsserted_AnyLow(pins) == (PIND \cap pins) # pins

isAsserted(pins) == (PIND \cap pins) = {}
isReleased(pins) == (PIND \cap pins) # {}

\* ------------------------------------------------------------------------
\* Locals, history
\* ------------------------------------------------------------------------
Loc0 ==
    [cmd |-> 0, cmds |-> <<>>, clen |-> 0,
     arr |-> <<>>, length |-> 0, aeoi |-> FALSE, i |-> 0, lasteoi |-> FALSE,
     data |-> 0, eoi |-> FALSE,
     bdata |-> 0, bit |-> 0,
     pins |-> {}, timeout |-> 0, initialTime |-> 0, now |-> 0, wname |-> "",
     elapsed |-> 0,      \* microseconds that passed since the wait began (observation)
     str |-> <<>>]

Gh0 ==
    [sent |-> <<>>,      \* bytes clocked out by SendBits, as a listener reads them
     shreg |-> <<>>,     \* bits of the byte being clocked out, first bit first
     edges |-> 0,        \* Clock releases by the controller while it holds Attention
     lineOps |-> 0,      \* line operations (assert / release) executed
     stWrites |-> 0,     \* assignments to m_status executed
     nodev |-> FALSE,    \* Command's attention-acknowledge wait timed out
     cmdSt |-> -1,       \* m_status when the (last) Command returned
     cmdRet |-> FALSE,   \* what that Command returned
     acks |-> 0,         \* bytes whose frame handshake was seen
     turn |-> FALSE,     \* Turnaround was entered
     eoiLog |-> <<>>,    \* eoi argument of every Send(byte, eoi) call
     resLog |-> <<>>,    \* m_status and lineOps at every return of Send(byte, eoi)
     to |-> {},          \* bounded waits that timed out since the last Send(byte, eoi) began
     eoiWaits |-> 0,     \* EOI-acknowledge waits begun
     was |-> {},         \* lines the controller held when Reset began
     held |-> 0,         \* microseconds of Reset's delay that have passed
     timeouts |-> 0]     \* bounded waits that timed out in the public call

\* GetBits not running
Rx0 == [pc |-> "off", data |-> 0, bit |-> 0]

RECURSIVE BitsValue(_)
BitsValue(bs) == IF bs = <<>> THEN 0 ELSE Head(bs) + 2 * BitsValue(Tail(bs))

\* ------------------------------------------------------------------------
\* Control
\* ------------------------------------------------------------------------
Idle == stk = <<>>
At(fn, lbl) == stk # <<>> /\ stk[1] = <<fn, lbl>>
InFn(fn) == \E k \in 1 .. Len(stk) : stk[k][1] = fn
Goto(lbl) == stk' = <<<<stk[1][1], lbl>>>> \o Tail(stk)
CallFn(callee, retlbl) == stk' = <<callee, <<stk[1][1], retlbl>>>> \o Tail(stk)
Return == stk' = Tail(stk)

\* ------------------------------------------------------------------------
\* Line Driver (iecserial.cpp 264-281)
\* ------------------------------------------------------------------------
\* history of a line operation: one more operation; one more edge when the
\* controller lets Clock go while it holds Attention
GhLine(g, released) ==
    [g EXCEPT !.lineOps = @ + 1,
              !.edges = IF /\ "clk" \in released /\ "clk" \in Driven
                           /\ "atn" \in Driven /\ "atn" \notin released
                        THEN @ + 1 ELSE @]

AssertPins(pins) ==
    /\ PORTD' = PORTD \ pins
    /\ DDRD' = DDRD \cup pins

Release(pins) ==
    /\ DDRD' = DDRD \ pins
    /\ PORTD' = PORTD \cup pins

ReleaseAll == Release(srqBit \cup rstBit \cup clkBit \cup dioBit \cup atnBit)

\* delayMicroseconds(us): time passes Tick by Tick; when us have passed the
\* locals become l and control goes to next
DelayThen(us, next, l) ==
    LET n == loc.now + Tick
    IN  IF n >= us
        THEN /\ loc' = [l EXCEPT !.now = 0]
             /\ Goto(next)
        ELSE /\ loc' = [loc EXCEPT !.now = n]
             /\ UNCHANGED stk

Delay(us, next) == DelayThen(us, next, loc)

\* micros() at the next poll, given its value at the last one
micros(last) == (last + Tick) % ULongMod

isOk == m_status = STATUS_OK

\* a call of a wait function: its arguments, and initialTime = micros()
\* (wname names the call site for the history)
CallWait(fn, wname, pins, timeout, retlbl) ==
    \E t \in StartTimes :
        /\ loc' = [loc EXCEPT !.pins = pins, !.timeout = timeout,
                              !.initialTime = t, !.now = t, !.wname = wname,
                              !.elapsed = 0]
        /\ CallFn(<<fn, "loop">>, retlbl)

WaitLocalsGone ==
    [loc EXCEPT !.pins = {}, !.timeout = 0, !.initialTime = 0, !.now = 0, !.wname = "",
                !.elapsed = 0]

\* ------------------------------------------------------------------------
\* Timing & wait primitives (iecserial.cpp 297-341)
\* ------------------------------------------------------------------------
WaitAssertionOrTimeout_Loop ==
    /\ At("WaitAssertionOrTimeout", "loop")
    /\ IF isReleased(loc.pins)
       THEN LET n == micros(loc.now)
            IN  IF ULongSub(n, loc.initialTime) > loc.timeout
                THEN /\ m_status' = STATUS_TIMEOUT
                     /\ ret' = TRUE
                     /\ Return
                     /\ loc' = WaitLocalsGone
                     /\ gh' = [gh EXCEPT !.stWrites = @ + 1, !.to = @ \cup {loc.wname},
                                          !.timeouts = @ + 1]
                ELSE /\ loc' = [loc EXCEPT !.now = n, !.elapsed = @ + Tick]
                     /\ UNCHANGED <<m_status, ret, stk, gh>>
       ELSE /\ ret' = FALSE
            /\ Return
            /\ loc' = WaitLocalsGone
            /\ UNCHANGED <<m_status, gh>>
    /\ UNCHANGED <<DDRD, PORTD, dev, op>>
    /\ UNCHANGED rx

WaitReleaseOrTimeout_Loop ==
    /\ At("WaitReleaseOrTimeout", "loop")
    /\ IF isAsserted(loc.pins)
       THEN LET n == micros(loc.now)
            IN  IF ULongSub(n, loc.initialTime) > loc.timeout
                THEN /\ m_status' = STATUS_TIMEOUT
                     /\ ret' = TRUE
                     /\ Return
                     /\ loc' = WaitLocalsGone
                     /\ gh' = [gh EXCEPT !.stWrites = @ + 1, !.to = @ \cup {loc.wname},
                                          !.timeouts = @ + 1]
                ELSE /\ loc' = [loc EXCEPT !.now = n, !.elapsed = @ + Tick]
                     /\ UNCHANGED <<m_status, ret, stk, gh>>
       ELSE /\ ret' = FALSE
            /\ Return
            /\ loc' = WaitLocalsGone
            /\ UNCHANGED <<m_status, gh>>
    /\ UNCHANGED <<DDRD, PORTD, dev, op>>
    /\ UNCHANGED rx

\* while (isAsserted(pins)); : leaves the loop at the first poll that reads a
\* queried line high, and spins (no step) while all of them read low
WaitRelease_Loop ==
    /\ At("WaitRelease", "loop")
    /\ ~isAsserted(loc.pins)
    /\ Return
    /\ loc' = [loc EXCEPT !.pins = {}]
    /\ UNCHANGED <<DDRD, PORTD, dev, m_status, ret, op, gh>>
    /\ UNCHANGED rx

\* ------------------------------------------------------------------------
\* Byte transmission: SendBits (iecserial.cpp 365-382)
\* ------------------------------------------------------------------------
\* history of the bit-valid Clock release: the level the controller puts on
\* Data is the bit (released = 1); eight of them make a byte, first bit = bit 0
GhBit(g) ==
    LET b == IF "dio" \in Driven THEN 0 ELSE 1
        s == Append(g.shreg, b)
    IN  IF Len(s) = 8
        THEN [g EXCEPT !.sent = Append(@, BitsValue(s)), !.shreg = <<>>]
        ELSE [g EXCEPT !.shreg = s]

SendBits_ClkLo ==
    /\ At("SendBits", "clk_lo")
    /\ AssertPins(clkBit)
    /\ gh' = GhLine(gh, {})
    /\ Goto("ts1")
    /\ UNCHANGED <<dev, m_status, ret, op, loc>>
    /\ UNCHANGED rx

SendBits_Ts1 ==
    /\ At("SendBits", "ts1")
    /\ Delay(TIME_TS \div 2, "dio")
    /\ UNCHANGED <<DDRD, PORTD, dev, m_status, ret, op, gh>>
    /\ UNCHANGED rx

\* Faulty variant of SendBits_Dio: the levels of 0 and 1 are exchanged
SendBits_Dio_Inverted ==
    /\ At("SendBits", "dio")
    /\ IF loc.bdata % 2 = 1 THEN AssertPins(dioBit) ELSE Release(dioBit)
    /\ loc' = [loc EXCEPT !.bdata = @ \div 2]
    /\ gh' = GhLine(gh, IF loc.bdata % 2 = 1 THEN {} ELSE dioBit)
    /\ Goto("ts2")
    /\ UNCHANGED <<dev, m_status, ret, op>>
    /\ UNCHANGED rx

SendBits_Dio ==
    /\ At("SendBits", "dio")
    /\ IF loc.bdata % 2 = 1 THEN Release(dioBit) ELSE AssertPins(dioBit)
    /\ loc' = [loc EXCEPT !.bdata = @ \div 2]
    /\ gh' = GhLine(gh, IF loc.bdata % 2 = 1 THEN dioBit ELSE {})
    /\ Goto("ts2")
    /\ UNCHANGED <<dev, m_status, ret, op>>
    /\ UNCHANGED rx

SendBits_Ts2 ==
    /\ At("SendBits", "ts2")
    /\ Delay(TIME_TS \div 2, "clk_hi")
    /\ UNCHANGED <<DDRD, PORTD, dev, m_status, ret, op, gh>>
    /\ UNCHANGED rx

SendBits_ClkHi ==
    /\ At("SendBits", "clk_hi")
    /\ Release(clkBit)
    /\ gh' = GhBit(GhLine(gh, clkBit))
    /\ Goto("tv")
    /\ UNCHANGED <<dev, m_status, ret, op, loc>>
    /\ UNCHANGED rx

\* delayMicroseconds(TIME_TV); bit++; bit < 8 ?
SendBits_Tv ==
    /\ At("SendBits", "tv")
    /\ DelayThen(TIME_TV, IF loc.bit + 1 < 8 THEN "clk_lo" ELSE "end_dio",
                 [loc EXCEPT !.bit = @ + 1])
    /\ UNCHANGED <<DDRD, PORTD, dev, m_status, ret, op, gh>>
    /\ UNCHANGED rx

SendBits_EndDio ==
    /\ At("SendBits", "end_dio")
    /\ Release(dioBit)
    /\ gh' = GhLine(gh, dioBit)
    /\ Goto("end_clk")
    /\ UNCHANGED <<dev, m_status, ret, op, loc>>
    /\ UNCHANGED rx

SendBits_EndClk ==
    /\ At("SendBits", "end_clk")
    /\ AssertPins(clkBit)
    /\ gh' = GhLine(gh, {})
    /\ Return
    /\ loc' = [loc EXCEPT !.bdata = 0, !.bit = 0]
    /\ UNCHANGED <<dev, m_status, ret, op>>
    /\ UNCHANGED rx

\* ------------------------------------------------------------------------
\* Send(uint8_t data, bool eoi) (iecserial.cpp 194-219)
\* ------------------------------------------------------------------------
Send_Status ==
    /\ At("Send", "status")
    /\ m_status' = STATUS_OK
    /\ gh' = [gh EXCEPT !.stWrites = @ + 1, !.eoiLog = Append(@, loc.eoi), !.to = {}]
    /\ Goto("rel_clk")
    /\ UNCHANGED <<DDRD, PORTD, dev, ret, op, loc>>
    /\ UNCHANGED rx

Send_RelClk ==
    /\ At("Send", "rel_clk")
    /\ Release(clkBit)
    /\ gh' = GhLine(gh, clkBit)
    /\ Goto("rfd")
    /\ UNCHANGED <<dev, m_status, ret, op, loc>>
    /\ UNCHANGED rx

\* WaitRelease(dioBit); then if (eoi) ... else ...
Send_Rfd ==
    /\ At("Send", "rfd")
    /\ loc' = [loc EXCEPT !.pins = dioBit]
    /\ CallFn(<<"WaitRelease", "loop">>, IF loc.eoi THEN "tye" ELSE "tne")
    /\ UNCHANGED <<DDRD, PORTD, dev, m_status, ret, op, gh>>
    /\ UNCHANGED rx

Send_Tye ==
    /\ At("Send", "tye")
    /\ CallWait("WaitAssertionOrTimeout", "tye", dioBit, TIME_TYE, "tei")
    /\ gh' = [gh EXCEPT !.eoiWaits = @ + 1]
    /\ UNCHANGED <<DDRD, PORTD, dev, m_status, ret, op>>
    /\ UNCHANGED rx

Send_Tei ==
    /\ At("Send", "tei")
    /\ CallWait("WaitReleaseOrTimeout", "tei", dioBit, TIME_TEI, "try")
    /\ UNCHANGED <<DDRD, PORTD, dev, m_status, ret, op, gh>>
    /\ UNCHANGED rx

Send_Try ==
    /\ At("Send", "try")
    /\ Delay(TIME_TRY, "bits")
    /\ UNCHANGED <<DDRD, PORTD, dev, m_status, ret, op, gh>>
    /\ UNCHANGED rx

Send_Tne ==
    /\ At("Send", "tne")
    /\ Delay(TIME_TNE, "bits")
    /\ UNCHANGED <<DDRD, PORTD, dev, m_status, ret, op, gh>>
    /\ UNCHANGED rx

Send_Bits ==
    /\ At("Send", "bits")
    /\ loc' = [loc EXCEPT !.bdata = loc.data, !.bit = 0]
    /\ CallFn(<<"SendBits", "clk_lo">>, "tf")
    /\ UNCHANGED <<DDRD, PORTD, dev, m_status, ret, op, gh>>
    /\ UNCHANGED rx

Send_Tf ==
    /\ At("Send", "tf")
    /\ CallWait("WaitAssertionOrTimeout", "tf", dioBit, TIME_TF, "chk")
    /\ UNCHANGED <<DDRD, PORTD, dev, m_status, ret, op, gh>>
    /\ UNCHANGED rx


\* Faulty variant of Send_Chk: any earlier timeout counts as a framing error too
Send_Chk_AnyTimeout ==
    /\ At("Send", "chk")
    /\ IF ret \/ ~isOk
       THEN /\ m_status' = STATUS_FRAMMING_ERROR
            /\ gh' = [gh EXCEPT !.stWrites = @ + 1]
       ELSE /\ gh' = [gh EXCEPT !.acks = @ + 1]
            /\ UNCHANGED m_status
    /\ Goto("tbb")
    /\ UNCHANGED <<DDRD, PORTD, dev, ret, op, loc>>
    /\ UNCHANGED rx

\* if (WaitAssertionOrTimeout(dioBit, TIME_TF)) m_status = STATUS_FRAMMING_ERROR;
Send_Chk ==
    /\ At("Send", "chk")
    /\ IF ret
       THEN /\ m_status' = STATUS_FRAMMING_ERROR
            /\ gh' = [gh EXCEPT !.stWrites = @ + 1]
       ELSE /\ gh' = [gh EXCEPT !.acks = @ + 1]
            /\ UNCHANGED m_status
    /\ Goto("tbb")
    /\ UNCHANGED <<DDRD, PORTD, dev, ret, op, loc>>
    /\ UNCHANGED rx

Send_Tbb ==
    /\ At("Send", "tbb")
    /\ Delay(TIME_TBB, "ret")
    /\ UNCHANGED <<DDRD, PORTD, dev, m_status, ret, op, gh>>
    /\ UNCHANGED rx

Send_Ret ==
    /\ At("Send", "ret")
    /\ ret' = isOk
    /\ Return
    /\ loc' = [loc EXCEPT !.data = 0, !.eoi = FALSE]
    /\ gh' = [gh EXCEPT !.resLog = Append(@, [st |-> m_status, ops |-> gh.lineOps])]
    /\ UNCHANGED <<DDRD, PORTD, dev, m_status, op>>
    /\ UNCHANGED rx

\* ------------------------------------------------------------------------
\* Send(const uint8_t data[], size_t length, bool eoi) (iecserial.cpp 226-235)
\* ------------------------------------------------------------------------

\* Faulty variant of SendN_Loop: lasteoi = eoi, for every byte
SendN_Loop_EoiEveryByte ==
    /\ At("SendN", "loop")
    /\ IF loc.i < loc.length
       THEN LET le == loc.aeoi
            IN  /\ loc' = [loc EXCEPT !.lasteoi = le, !.data = loc.arr[loc.i + 1],
                                      !.eoi = le]
                /\ CallFn(<<"Send", "status">>, "chk")
       ELSE /\ Goto("ret")
            /\ UNCHANGED loc
    /\ UNCHANGED <<DDRD, PORTD, dev, m_status, ret, op, gh>>
    /\ UNCHANGED rx

\* i < length ?  lasteoi = eoi && (i == length-1);  Send(data[i], lasteoi)
SendN_Loop ==
    /\ At("SendN", "loop")
    /\ IF loc.i < loc.length
       THEN LET le == loc.aeoi /\ (loc.i = loc.length - 1)
            IN  /\ loc' = [loc EXCEPT !.lasteoi = le, !.data = loc.arr[loc.i + 1],
                                      !.eoi = le]
                /\ CallFn(<<"Send", "status">>, "chk")
       ELSE /\ Goto("ret")
            /\ UNCHANGED loc
    /\ UNCHANGED <<DDRD, PORTD, dev, m_status, ret, op, gh>>
    /\ UNCHANGED rx


\* Faulty variant of SendN_Chk: no break on a failed byte
SendN_Chk_NoBreak ==
    /\ At("SendN", "chk")
    /\ loc' = [loc EXCEPT !.i = @ + 1]
    /\ Goto("loop")
    /\ UNCHANGED <<DDRD, PORTD, dev, m_status, ret, op, gh>>
    /\ UNCHANGED rx

\* if (!Send(...)) break;  else i++
SendN_Chk ==
    /\ At("SendN", "chk")
    /\ IF ~ret
       THEN /\ Goto("ret")
            /\ UNCHANGED loc
       ELSE /\ loc' = [loc EXCEPT !.i = @ + 1]
            /\ Goto("loop")
    /\ UNCHANGED <<DDRD, PORTD, dev, m_status, ret, op, gh>>
    /\ UNCHANGED rx

SendN_Ret ==
    /\ At("SendN", "ret")
    /\ ret' = isOk
    /\ Return
    /\ loc' = [loc EXCEPT !.arr = <<>>, !.length = 0, !.aeoi = FALSE, !.i = 0,
                          !.lasteoi = FALSE]
    /\ UNCHANGED <<DDRD, PORTD, dev, m_status, op, gh>>
    /\ UNCHANGED rx

\* ------------------------------------------------------------------------
\* Command(uint8_t cmd) and Command(uint8_t cmd[], size_t length)
\* (iecserial.cpp 76-97 and 103-123; the two differ in the Send they call)
\* ------------------------------------------------------------------------
CommandForms == {"Command", "CommandN"}
InCommand(lbl) == stk # <<>> /\ stk[1][1] \in CommandForms /\ stk[1][2] = lbl
CommandLocalsGone == [loc EXCEPT !.cmd = 0, !.cmds = <<>>, !.clen = 0]

Command_Status ==
    /\ InCommand("status")
    /\ m_status' = STATUS_OK
    /\ gh' = [gh EXCEPT !.stWrites = @ + 1]
    /\ Goto("rel_dio")
    /\ UNCHANGED <<DDRD, PORTD, dev, ret, op, loc>>
    /\ UNCHANGED rx

Command_RelDio ==
    /\ InCommand("rel_dio")
    /\ Release(dioBit)
    /\ gh' = GhLine(gh, dioBit)
    /\ Goto("atn")
    /\ UNCHANGED <<dev, m_status, ret, op, loc>>
    /\ UNCHANGED rx

Command_Atn ==
    /\ InCommand("atn")
    /\ AssertPins(atnBit)
    /\ gh' = GhLine(gh, {})
    /\ Goto("clk")
    /\ UNCHANGED <<dev, m_status, ret, op, loc>>
    /\ UNCHANGED rx

Command_Clk ==
    /\ InCommand("clk")
    /\ AssertPins(clkBit)
    /\ gh' = GhLine(gh, {})
    /\ Goto("wait")
    /\ UNCHANGED <<dev, m_status, ret, op, loc>>
    /\ UNCHANGED rx

Command_Wait ==
    /\ InCommand("wait")
    /\ CallWait("WaitAssertionOrTimeout", "tat", dioBit, TIME_TAT, "chk")
    /\ UNCHANGED <<DDRD, PORTD, dev, m_status, ret, op, gh>>
    /\ UNCHANGED rx


\* Faulty variant of Command_Chk: the no-device path keeps the wait's status
Command_Chk_KeepsTimeout ==
    /\ InCommand("chk")
    /\ IF ret
       THEN /\ gh' = [gh EXCEPT !.nodev = TRUE]
            /\ Goto("nodev")
            /\ UNCHANGED m_status
       ELSE /\ Goto("send")
            /\ UNCHANGED <<m_status, gh>>
    /\ UNCHANGED <<DDRD, PORTD, dev, ret, op, loc>>
    /\ UNCHANGED rx

\* if (WaitAssertionOrTimeout(dioBit, TIME_TAT)) { m_status = STATUS_NO_DEVICE; ...
Command_Chk ==
    /\ InCommand("chk")
    /\ IF ret
       THEN /\ m_status' = STATUS_NO_DEVICE
            /\ gh' = [gh EXCEPT !.stWrites = @ + 1, !.nodev = TRUE]
            /\ Goto("nodev")
       ELSE /\ Goto("send")
            /\ UNCHANGED <<m_status, gh>>
    /\ UNCHANGED <<DDRD, PORTD, dev, ret, op, loc>>
    /\ UNCHANGED rx

\* ReleaseAll(); return false;
Command_NoDevice ==
    /\ InCommand("nodev")
    /\ ReleaseAll
    /\ ret' = FALSE
    /\ Return
    /\ loc' = CommandLocalsGone
    /\ gh' = [GhLine(gh, Lines) EXCEPT !.cmdSt = m_status, !.cmdRet = FALSE]
    /\ UNCHANGED <<dev, m_status, op>>
    /\ UNCHANGED rx

\* Send(cmd);  /  Send(cmd, length);   (eoi takes its default, false)
Command_Send ==
    /\ InCommand("send")
    /\ IF stk[1][1] = "Command"
       THEN /\ loc' = [loc EXCEPT !.data = loc.cmd, !.eoi = FALSE]
            /\ CallFn(<<"Send", "status">>, "tr")
       ELSE /\ loc' = [loc EXCEPT !.arr = loc.cmds, !.length = loc.clen,
                                  !.aeoi = FALSE, !.i = 0, !.lasteoi = FALSE]
            /\ CallFn(<<"SendN", "loop">>, "tr")
    /\ UNCHANGED <<DDRD, PORTD, dev, m_status, ret, op, gh>>
    /\ UNCHANGED rx

Command_Tr ==
    /\ InCommand("tr")
    /\ Delay(TIME_TR, "rel_atn")
    /\ UNCHANGED <<DDRD, PORTD, dev, m_status, ret, op, gh>>
    /\ UNCHANGED rx

\* Faulty variant of Command_RelAtn: Attention is released only after a good Send
Command_RelAtn_OnlyIfOk ==
    /\ InCommand("rel_atn")
    /\ IF isOk
       THEN Release(atnBit) /\ gh' = GhLine(gh, atnBit)
       ELSE UNCHANGED <<DDRD, PORTD, gh>>
    /\ Goto("ttk")
    /\ UNCHANGED <<dev, m_status, ret, op, loc>>
    /\ UNCHANGED rx

Command_RelAtn ==
    /\ InCommand("rel_atn")
    /\ Release(atnBit)
    /\ gh' = GhLine(gh, atnBit)
    /\ Goto("ttk")
    /\ UNCHANGED <<dev, m_status, ret, op, loc>>
    /\ UNCHANGED rx

Command_Ttk ==
    /\ InCommand("ttk")
    /\ Delay(TIME_TTK, "ret")
    /\ UNCHANGED <<DDRD, PORTD, dev, m_status, ret, op, gh>>
    /\ UNCHANGED rx

Command_Ret ==
    /\ InCommand("ret")
    /\ ret' = isOk
    /\ Return
    /\ loc' = CommandLocalsGone
    /\ gh' = [gh EXCEPT !.cmdSt = m_status, !.cmdRet = isOk]
    /\ UNCHANGED <<DDRD, PORTD, dev, m_status, op>>
    /\ UNCHANGED rx

\* ------------------------------------------------------------------------
\* Turnaround (iecserial.cpp 346-360)
\* ------------------------------------------------------------------------
Turnaround_Ttk ==
    /\ At("Turnaround", "ttk")
    /\ Delay(TIME_TTK, "dio")
    /\ UNCHANGED <<DDRD, PORTD, dev, m_status, ret, op, gh>>
    /\ UNCHANGED rx

\* Faulty variant of Turnaround_Dio: Data is released, not asserted
Turnaround_Dio_Released ==
    /\ At("Turnaround", "dio")
    /\ Release(dioBit)
    /\ gh' = GhLine(gh, dioBit)
    /\ Goto("clk")
    /\ UNCHANGED <<dev, m_status, ret, op, loc>>
    /\ UNCHANGED rx

Turnaround_Dio ==
    /\ At("Turnaround", "dio")
    /\ AssertPins(dioBit)
    /\ gh' = GhLine(gh, {})
    /\ Goto("clk")
    /\ UNCHANGED <<dev, m_status, ret, op, loc>>
    /\ UNCHANGED rx

Turnaround_Clk ==
    /\ At("Turnaround", "clk")
    /\ Release(clkBit)
    /\ gh' = GhLine(gh, clkBit)
    /\ Goto("tdc")
    /\ UNCHANGED <<dev, m_status, ret, op, loc>>
    /\ UNCHANGED rx

Turnaround_Tdc ==
    /\ At("Turnaround", "tdc")
    /\ Delay(TIME_TDC, "wait")
    /\ UNCHANGED <<DDRD, PORTD, dev, m_status, ret, op, gh>>
    /\ UNCHANGED rx

Turnaround_Wait ==
    /\ At("Turnaround", "wait")
    /\ CallWait("WaitAssertionOrTimeout", "ack", clkBit, TURNAROUND_TIMEOUT, "chk")
    /\ UNCHANGED <<DDRD, PORTD, dev, m_status, ret, op, gh>>
    /\ UNCHANGED rx

\* Faulty variant of Turnaround_Chk: a timed-out acknowledge wait is ignored
Turnaround_Chk_IgnoresTimeout ==
    /\ At("Turnaround", "chk")
    /\ Goto("tda")
    /\ UNCHANGED <<DDRD, PORTD, dev, m_status, ret, op, loc, gh>>
    /\ UNCHANGED rx

\* if (WaitAssertionOrTimeout(clkBit, 1000)) return false;
Turnaround_Chk ==
    /\ At("Turnaround", "chk")
    /\ IF ret
       THEN /\ ret' = FALSE
            /\ Return
       ELSE /\ Goto("tda")
            /\ UNCHANGED ret
    /\ UNCHANGED <<DDRD, PORTD, dev, m_status, op, loc, gh>>
    /\ UNCHANGED rx

\* delayMicroseconds(TIME_TDA); return true;
Turnaround_Tda ==
    /\ At("Turnaround", "tda")
    /\ LET n == loc.now + Tick
       IN  IF n >= TIME_TDA
           THEN /\ loc' = [loc EXCEPT !.now = 0]
                /\ ret' = TRUE
                /\ Return
           ELSE /\ loc' = [loc EXCEPT !.now = n]
                /\ UNCHANGED <<ret, stk>>
    /\ UNCHANGED <<DDRD, PORTD, dev, m_status, op, gh>>
    /\ UNCHANGED rx

\* ------------------------------------------------------------------------
\* Talk, Listen, Untalk, Unlisten, Reset, Send(str), Get (iecserial.cpp 128-262)
\* ------------------------------------------------------------------------
TalkByte(pad) == U8(BitOr(CMD_TALK, pad))

\* Faulty variant of ListenByte: the TALK opcode
ListenByte_TalkOpcode(pad) == U8(BitOr(CMD_TALK, pad))

ListenByte(pad) == U8(BitOr(CMD_LISTEN, pad))
SecondaryByte(sad) == U8(BitOr(CMD_SECONDARY, sad))

\* the Command call of Talk(pad), Talk(pad, sad), Listen(pad), Listen(pad, sad)
AddressCommand(first, retlbl) ==
    IF op.name \in {"Talk", "Listen"}
    THEN /\ loc' = [loc EXCEPT !.cmd = first]
         /\ CallFn(<<"Command", "status">>, retlbl)
    ELSE /\ loc' = [loc EXCEPT !.cmds = <<first, SecondaryByte(op.sad)>>,
                               !.clen = 2]
         /\ CallFn(<<"CommandN", "status">>, retlbl)

Talk_Cmd ==
    /\ At("Talk", "cmd")
    /\ AddressCommand(TalkByte(op.pad), "chk")
    /\ UNCHANGED <<DDRD, PORTD, dev, m_status, ret, op, gh>>
    /\ UNCHANGED rx


\* Faulty variant of Talk_Chk: Turnaround whatever Command returned
Talk_Chk_AlwaysTurnaround ==
    /\ At("Talk", "chk")
    /\ CallFn(<<"Turnaround", "ttk">>, "ret")
    /\ gh' = [gh EXCEPT !.turn = TRUE]
    /\ UNCHANGED <<DDRD, PORTD, dev, m_status, ret, op, loc>>
    /\ UNCHANGED rx

\* if (Command(...)) return Turnaround();  return false;
Talk_Chk ==
    /\ At("Talk", "chk")
    /\ IF ret
       THEN /\ CallFn(<<"Turnaround", "ttk">>, "ret")
            /\ gh' = [gh EXCEPT !.turn = TRUE]
            /\ UNCHANGED ret
       ELSE /\ ret' = FALSE
            /\ Return
            /\ UNCHANGED gh
    /\ UNCHANGED <<DDRD, PORTD, dev, m_status, op, loc>>
    /\ UNCHANGED rx

Talk_Ret ==
    /\ At("Talk", "ret")
    /\ Return
    /\ UNCHANGED <<DDRD, PORTD, dev, m_status, ret, op, loc, gh>>
    /\ UNCHANGED rx

Listen_Cmd ==
    /\ At("Listen", "cmd")
    /\ AddressCommand(ListenByte(op.pad), "ret")
    /\ UNCHANGED <<DDRD, PORTD, dev, m_status, ret, op, gh>>
    /\ UNCHANGED rx

Listen_Ret ==
    /\ At("Listen", "ret")
    /\ Return
    /\ UNCHANGED <<DDRD, PORTD, dev, m_status, ret, op, loc, gh>>
    /\ UNCHANGED rx

\* Untalk() and Unlisten(): Command(CMD_UNTALK / CMD_UNLISTEN); ReleaseAll(); return isOk();
UnForms == {"Untalk", "Unlisten"}
InUn(lbl) == stk # <<>> /\ stk[1][1] \in UnForms /\ stk[1][2] = lbl

Un_Cmd ==
    /\ InUn("cmd")
    /\ loc' = [loc EXCEPT !.cmd = IF stk[1][1] = "Untalk" THEN CMD_UNTALK
                                  ELSE CMD_UNLISTEN]
    /\ CallFn(<<"Command", "status">>, "rel")
    /\ UNCHANGED <<DDRD, PORTD, dev, m_status, ret, op, gh>>
    /\ UNCHANGED rx


\* Faulty variant of Un_ReleaseAll: the final ReleaseAll() is left out
Un_ReleaseAll_Skipped ==
    /\ InUn("rel")
    /\ Goto("ret")
    /\ UNCHANGED <<DDRD, PORTD, dev, m_status, ret, op, loc, gh>>
    /\ UNCHANGED rx

Un_ReleaseAll ==
    /\ InUn("rel")
    /\ ReleaseAll
    /\ gh' = GhLine(gh, Lines)
    /\ Goto("ret")
    /\ UNCHANGED <<dev, m_status, ret, op, loc>>
    /\ UNCHANGED rx

Un_Ret ==
    /\ InUn("ret")
    /\ ret' = isOk
    /\ Return
    /\ UNCHANGED <<DDRD, PORTD, dev, m_status, op, loc, gh>>
    /\ UNCHANGED rx


\* Faulty variant of Reset_ReleaseAll: the leading ReleaseAll() is left out
Reset_ReleaseAll_Skipped ==
    /\ At("Reset", "rel")
    /\ gh' = [gh EXCEPT !.was = Driven]
    /\ Goto("rst")
    /\ UNCHANGED <<DDRD, PORTD, dev, m_status, ret, op, loc>>
    /\ UNCHANGED rx

Reset_ReleaseAll ==
    /\ At("Reset", "rel")
    /\ ReleaseAll
    /\ gh' = [GhLine(gh, Lines) EXCEPT !.was = Driven]
    /\ Goto("rst")
    /\ UNCHANGED <<dev, m_status, ret, op, loc>>
    /\ UNCHANGED rx

Reset_Rst ==
    /\ At("Reset", "rst")
    /\ AssertPins(rstBit)
    /\ gh' = GhLine(gh, {})
    /\ Goto("hold")
    /\ UNCHANGED <<dev, m_status, ret, op, loc>>
    /\ UNCHANGED rx

Reset_Hold ==
    /\ At("Reset", "hold")
    /\ Delay(RESET_PULSE, "end")
    /\ gh' = [gh EXCEPT !.held = @ + Tick]
    /\ UNCHANGED <<DDRD, PORTD, dev, m_status, ret, op>>
    /\ UNCHANGED rx

Reset_End ==
    /\ At("Reset", "end")
    /\ Release(rstBit)
    /\ gh' = GhLine(gh, rstBit)
    /\ Return
    /\ UNCHANGED <<dev, m_status, ret, op, loc>>
    /\ UNCHANGED rx

\* size_t len = strlen(str); return Send(str, len, eoi);
SendStr_Len ==
    /\ At("SendStr", "len")
    /\ loc' = [loc EXCEPT !.arr = loc.str, !.length = strlen(loc.str),
                          !.aeoi = op.eoi, !.i = 0, !.lasteoi = FALSE]
    /\ CallFn(<<"SendN", "loop">>, "ret")
    /\ UNCHANGED <<DDRD, PORTD, dev, m_status, ret, op, gh>>
    /\ UNCHANGED rx

SendStr_Ret ==
    /\ At("SendStr", "ret")
    /\ Return
    /\ loc' = [loc EXCEPT !.str = <<>>]
    /\ UNCHANGED <<DDRD, PORTD, dev, m_status, ret, op, gh>>
    /\ UNCHANGED rx

\* both Get overloads: return isOk();
Get_Ret ==
    /\ At("Get", "ret")
    /\ ret' = isOk
    /\ Return
    /\ UNCHANGED <<DDRD, PORTD, dev, m_status, op, loc, gh>>
    /\ UNCHANGED rx

\* ------------------------------------------------------------------------
\* The caller: public calls, one at a time
\* ------------------------------------------------------------------------
Op0 ==
    [name |-> "IecSerial", cmd |-> 0, arr |-> <<>>, length |-> 0, pad |-> 0,
     sad |-> 0, data |-> 0, eoi |-> FALSE]

\* a public call: o is the member function called and its arguments
Invoke(o, frame, l) ==
    /\ Idle
    /\ stk' = <<frame>>
    /\ op' = o
    /\ loc' = l
    /\ gh' = Gh0
    /\ UNCHANGED <<DDRD, PORTD, dev, m_status, ret>>
    /\ UNCHANGED rx

Call_Command ==
    \E c \in CmdBytes :
        Invoke([Op0 EXCEPT !.name = "Command", !.cmd = c], <<"Command", "status">>, [Loc0 EXCEPT !.cmd = c])

Call_CommandN ==
    \E a \in CmdArrays :
        Invoke([Op0 EXCEPT !.name = "CommandN", !.arr = a, !.length = Len(a)],
               <<"CommandN", "status">>,
               [Loc0 EXCEPT !.cmds = a, !.clen = Len(a)])

Call_Talk ==
    \E pad \in Pads : Invoke([Op0 EXCEPT !.name = "Talk", !.pad = pad], <<"Talk", "cmd">>, Loc0)

Call_Talk2 ==
    \E a \in AddrPairs : Invoke([Op0 EXCEPT !.name = "Talk2", !.pad = a[1], !.sad = a[2]],
               <<"Talk", "cmd">>, Loc0)

Call_Listen ==
    \E pad \in Pads : Invoke([Op0 EXCEPT !.name = "Listen", !.pad = pad], <<"Listen", "cmd">>, Loc0)

Call_Listen2 ==
    \E a \in AddrPairs : Invoke([Op0 EXCEPT !.name = "Listen2", !.pad = a[1], !.sad = a[2]],
               <<"Listen", "cmd">>, Loc0)

Call_Untalk == Invoke([Op0 EXCEPT !.name = "Untalk"], <<"Untalk", "cmd">>, Loc0)

Call_Unlisten == Invoke([Op0 EXCEPT !.name = "Unlisten"], <<"Unlisten", "cmd">>, Loc0)

Call_Reset == Invoke([Op0 EXCEPT !.name = "Reset"], <<"Reset", "rel">>, Loc0)

Call_Send ==
    \E d \in DataBytes, e \in BOOLEAN :
        Invoke([Op0 EXCEPT !.name = "Send", !.data = d, !.eoi = e],
               <<"Send", "status">>,
               [Loc0 EXCEPT !.data = d, !.eoi = e])

Call_SendN ==
    \E a \in Arrays, e \in BOOLEAN :
        Invoke([Op0 EXCEPT !.name = "SendN", !.arr = a, !.length = Len(a), !.eoi = e],
               <<"SendN", "loop">>,
               [Loc0 EXCEPT !.arr = a, !.length = Len(a), !.aeoi = e])

Call_SendStr ==
    \E s \in Strings, e \in BOOLEAN :
        Invoke([Op0 EXCEPT !.name = "SendStr", !.arr = s, !.eoi = e],
               <<"SendStr", "len">>, [Loc0 EXCEPT !.str = s])

Call_Get == Invoke([Op0 EXCEPT !.name = "Get"], <<"Get", "ret">>, Loc0)

\* ------------------------------------------------------------------------
\* The devices on the bus
\* ------------------------------------------------------------------------
DevAssert ==
    /\ \E l \in DevLines \ dev : dev' = dev \cup {l}
    /\ UNCHANGED <<DDRD, PORTD, m_status, stk, ret, op, loc, gh>>
    /\ UNCHANGED rx

DevRelease ==
    /\ \E l \in dev : dev' = dev \ {l}
    /\ UNCHANGED <<DDRD, PORTD, m_status, stk, ret, op, loc, gh>>
    /\ UNCHANGED rx

\* ------------------------------------------------------------------------
\* Specification: any sequence of public calls on a bus with devices
\* ------------------------------------------------------------------------
\* IecSerial::IecSerial: m_status(STATUS_OK), ReleaseAll()
Init ==
    /\ DDRD = {}
    /\ PORTD = Lines
    /\ dev = {}
    /\ m_status = STATUS_OK
    /\ stk = <<>>
    /\ ret = TRUE
    /\ op = Op0
    /\ loc = Loc0
    /\ gh = Gh0
    /\ rx = Rx0

Next ==
    \/ Call_Command \/ Call_CommandN \/ Call_Talk \/ Call_Talk2
    \/ Call_Listen \/ Call_Listen2 \/ Call_Untalk \/ Call_Unlisten
    \/ Call_Reset \/ Call_Send \/ Call_SendN \/ Call_SendStr \/ Call_Get
    \/ Command_Status \/ Command_RelDio \/ Command_Atn \/ Command_Clk
    \/ Command_Wait \/ Command_Chk \/ Command_NoDevice \/ Command_Send
    \/ Command_Tr \/ Command_RelAtn \/ Command_Ttk \/ Command_Ret
    \/ Talk_Cmd \/ Talk_Chk \/ Talk_Ret \/ Listen_Cmd \/ Listen_Ret
    \/ Un_Cmd \/ Un_ReleaseAll \/ Un_Ret
    \/ Reset_ReleaseAll \/ Reset_Rst \/ Reset_Hold \/ Reset_End
    \/ Send_Status \/ Send_RelClk \/ Send_Rfd \/ Send_Tye \/ Send_Tei
    \/ Send_Try \/ Send_Tne \/ Send_Bits \/ Send_Tf \/ Send_Chk
    \/ Send_Tbb \/ Send_Ret
    \/ SendN_Loop \/ SendN_Chk \/ SendN_Ret \/ SendStr_Len \/ SendStr_Ret
    \/ Get_Ret
    \/ SendBits_ClkLo \/ SendBits_Ts1 \/ SendBits_Dio \/ SendBits_Ts2
    \/ SendBits_ClkHi \/ SendBits_Tv \/ SendBits_EndDio \/ SendBits_EndClk
    \/ Turnaround_Ttk \/ Turnaround_Dio \/ Turnaround_Clk \/ Turnaround_Tdc
    \/ Turnaround_Wait \/ Turnaround_Chk \/ Turnaround_Tda
    \/ WaitAssertionOrTimeout_Loop \/ WaitReleaseOrTimeout_Loop
    \/ WaitRelease_Loop
    \/ DevAssert \/ DevRelease

Spec == Init /\ [][Next]_vars

\* ------------------------------------------------------------------------
\* Byte reception: GetBits (iecserial.cpp 386-396), run by a bus partner
\* ------------------------------------------------------------------------
\* data >>= 1;
GetBits_Shift ==
    /\ rx.pc = "shift"
    /\ rx' = [rx EXCEPT !.data = @ \div 2, !.pc = "wait_assertion"]
    /\ UNCHANGED <<DDRD, PORTD, dev, m_status, stk, ret, op, loc, gh>>

\* WaitAssertion(clkBit): while (isReleased(pins));
GetBits_WaitAssertion ==
    /\ rx.pc = "wait_assertion"
    /\ ~isReleased(clkBit)
    /\ rx' = [rx EXCEPT !.pc = "wait_release"]
    /\ UNCHANGED <<DDRD, PORTD, dev, m_status, stk, ret, op, loc, gh>>

\* WaitRelease(clkBit): while (isAsserted(pins));
GetBits_WaitRelease ==
    /\ rx.pc = "wait_release"
    /\ ~isAsserted(clkBit)
    /\ rx' = [rx EXCEPT !.pc = "sample"]
    /\ UNCHANGED <<DDRD, PORTD, dev, m_status, stk, ret, op, loc, gh>>


\* Faulty variant of GetBits_Sample: a released Data sets bit 6, not bit 7
GetBits_Sample_Bit6 ==
    /\ rx.pc = "sample"
    /\ rx' = [data |-> IF isReleased(dioBit) THEN U8(BitOr(rx.data, 64)) ELSE rx.data,
              bit |-> rx.bit + 1,
              pc |-> IF rx.bit + 1 < 8 THEN "shift" ELSE "done"]
    /\ UNCHANGED <<DDRD, PORTD, dev, m_status, stk, ret, op, loc, gh>>

\* if (isReleased(dioBit)) data |= 0b10000000;  bit++;  bit < 8 ?
GetBits_Sample ==
    /\ rx.pc = "sample"
    /\ rx' = [data |-> IF isReleased(dioBit) THEN U8(BitOr(rx.data, 128)) ELSE rx.data,
              bit |-> rx.bit + 1,
              pc |-> IF rx.bit + 1 < 8 THEN "shift" ELSE "done"]
    /\ UNCHANGED <<DDRD, PORTD, dev, m_status, stk, ret, op, loc, gh>>

\* ------------------------------------------------------------------------
\* Specification of the round trip: SendBits(v) for every byte v against a
\* partner that runs GetBits from released Clock and Data, and that takes its
\* sample of every bit before the sender's data-valid interval (TIME_TV) ends
\* ------------------------------------------------------------------------
ByteValues == 0 .. 255

InitRoundTrip ==
    /\ DDRD = {}
    /\ PORTD = Lines
    /\ dev = {}
    /\ m_status = STATUS_OK
    /\ \E v \in ByteValues :
          /\ op = [Op0 EXCEPT !.name = "SendBits", !.data = v]
          /\ loc = [Loc0 EXCEPT !.bdata = v]
    /\ stk = <<<<"SendBits", "clk_lo">>>>
    /\ ret = TRUE
    /\ gh = Gh0
    /\ rx = [pc |-> "shift", data |-> 0, bit |-> 0]

\* the end of the data-valid interval of bit loc.bit: the partner has sampled it
RoundTrip_Tv ==
    /\ rx.bit = loc.bit + 1
    /\ SendBits_Tv

NextRoundTrip ==
    \/ SendBits_ClkLo \/ SendBits_Ts1 \/ SendBits_Dio \/ SendBits_Ts2
    \/ SendBits_ClkHi \/ RoundTrip_Tv \/ SendBits_EndDio \/ SendBits_EndClk
    \/ GetBits_Shift \/ GetBits_WaitAssertion \/ GetBits_WaitRelease
    \/ GetBits_Sample

SpecRoundTrip == InitRoundTrip /\ [][NextRoundTrip]_vars

\* ------------------------------------------------------------------------
\* Specification of addressing with every address pair: any sequence of public
\* calls as in Spec, in which one call is Talk(pad, sad) with pad and sad
\* drawn from their whole ranges (the behaviour is followed to its return)
\* ------------------------------------------------------------------------
Call_Talk2Any ==
    \E pad \in Pads, sad \in Sads :
        Invoke([Op0 EXCEPT !.name = "Talk2", !.pad = pad, !.sad = sad],
               <<"Talk", "cmd">>, Loc0)

Call_Other ==
    \/ Call_Command \/ Call_Listen2 \/ Call_Untalk \/ Call_Send \/ Call_SendN

Step ==
    \/ Command_Status \/ Command_RelDio \/ Command_Atn \/ Command_Clk
    \/ Command_Wait \/ Command_Chk \/ Command_NoDevice \/ Command_Send
    \/ Command_Tr \/ Command_RelAtn \/ Command_Ttk \/ Command_Ret
    \/ Talk_Cmd \/ Talk_Chk \/ Talk_Ret \/ Listen_Cmd \/ Listen_Ret
    \/ Un_Cmd \/ Un_ReleaseAll \/ Un_Ret
    \/ Send_Status \/ Send_RelClk \/ Send_Rfd \/ Send_Tye \/ Send_Tei
    \/ Send_Try \/ Send_Tne \/ Send_Bits \/ Send_Tf \/ Send_Chk
    \/ Send_Tbb \/ Send_Ret
    \/ SendN_Loop \/ SendN_Chk \/ SendN_Ret
    \/ SendBits_ClkLo \/ SendBits_Ts1 \/ SendBits_Dio \/ SendBits_Ts2
    \/ SendBits_ClkHi \/ SendBits_Tv \/ SendBits_EndDio \/ SendBits_EndClk
    \/ Turnaround_Ttk \/ Turnaround_Dio \/ Turnaround_Clk \/ Turnaround_Tdc
    \/ Turnaround_Wait \/ Turnaround_Chk \/ Turnaround_Tda
    \/ WaitAssertionOrTimeout_Loop \/ WaitReleaseOrTimeout_Loop
    \/ WaitRelease_Loop
    \/ DevAssert \/ DevRelease

NextAddr ==
    \/ op.name # "Talk2" /\ Call_Other
    \/ op.name # "Talk2" /\ Call_Talk2Any
    \/ Step

SpecAddr == Init /\ [][NextAddr]_vars

\* ------------------------------------------------------------------------
\* Specification with a processor that keeps running and a clock that keeps
\* advancing: a statement of the controller that can execute eventually
\* does (a poll of a bounded wait reads a later micros(), a delay passes).
\* Nothing is assumed of the caller (it may stop calling) nor of the devices.
\* ------------------------------------------------------------------------
Run ==
    \/ Command_Status \/ Command_RelDio \/ Command_Atn \/ Command_Clk
    \/ Command_Wait \/ Command_Chk \/ Command_NoDevice \/ Command_Send
    \/ Command_Tr \/ Command_RelAtn \/ Command_Ttk \/ Command_Ret
    \/ Talk_Cmd \/ Talk_Chk \/ Talk_Ret \/ Listen_Cmd \/ Listen_Ret
    \/ Un_Cmd \/ Un_ReleaseAll \/ Un_Ret
    \/ Reset_ReleaseAll \/ Reset_Rst \/ Reset_Hold \/ Reset_End
    \/ Send_Status \/ Send_RelClk \/ Send_Rfd \/ Send_Tye \/ Send_Tei
    \/ Send_Try \/ Send_Tne \/ Send_Bits \/ Send_Tf \/ Send_Chk
    \/ Send_Tbb \/ Send_Ret
    \/ SendN_Loop \/ SendN_Chk \/ SendN_Ret \/ SendStr_Len \/ SendStr_Ret
    \/ Get_Ret
    \/ SendBits_ClkLo \/ SendBits_Ts1 \/ SendBits_Dio \/ SendBits_Ts2
    \/ SendBits_ClkHi \/ SendBits_Tv \/ SendBits_EndDio \/ SendBits_EndClk
    \/ Turnaround_Ttk \/ Turnaround_Dio \/ Turnaround_Clk \/ Turnaround_Tdc
    \/ Turnaround_Wait \/ Turnaround_Chk \/ Turnaround_Tda
    \/ WaitAssertionOrTimeout_Loop \/ WaitReleaseOrTimeout_Loop
    \/ WaitRelease_Loop

SpecLive == Init /\ [][Next]_vars /\ WF_vars(Run)

\* ========================================================================
\* Properties
\* ========================================================================
Released == DDRD = {} /\ PORTD = Lines
NothingClockedOut == gh.sent = <<>> /\ gh.shreg = <<>>
IsPrefixOf(a, b) == Len(a) <= Len(b) /\ \A k \in 1 .. Len(a) : a[k] = b[k]

\* C1: when the attention-acknowledge wait of Command (either form) times
\* out, the call returns false with Status = NoDevice (not Timeout), with all
\* five lines released, and without having clocked out any bit.
C1_NoDevice ==
    (Idle /\ op.name \in CommandForms /\ gh.nodev)
        => /\ m_status = STATUS_NO_DEVICE
           /\ ret = FALSE
           /\ Released
           /\ NothingClockedOut
           /\ gh.eoiLog = <<>>

C1_Witness ==
    /\ Idle
    /\ op.name = "CommandN"
    /\ gh.nodev
    /\ "tat" \in gh.to
    /\ m_status = STATUS_NO_DEVICE

\* C2 (as claimed): Send(array, 0, eoi) returns success, transmits no bit and
\* executes no line operation, whatever call came before it.
C2_ZeroLengthIsOk ==
    (Idle /\ op.name = "SendN" /\ op.length = 0)
        => /\ ret = TRUE
           /\ NothingClockedOut
           /\ gh.lineOps = 0

\* C3: when Untalk() or Unlisten() has returned the controller drives no
\* line, and Status and the returned boolean are those of the inner Command.
C3_UnReleasesAll ==
    (Idle /\ op.name \in UnForms)
        => /\ Released
           /\ m_status = gh.cmdSt
           /\ ret = gh.cmdRet
           /\ ret = (m_status = STATUS_OK)

C3_Witness ==
    /\ Idle
    /\ op.name = "Untalk"
    /\ m_status = STATUS_FRAMMING_ERROR
    /\ gh.sent = <<CMD_UNTALK>>
    /\ ret = FALSE

\* C4: Talk(pad, sad), for every pad in 0..30 and sad in 0..31: the bytes
\* clocked out are 0x40|pad then 0x60|sad; Attention is held by the controller
\* all the time the inner Send runs (from before the first bit until after the
\* last one, the gap between the two bytes included); Turnaround is entered
\* only after both bytes were acknowledged and Command returned true.
C4_Talk2 ==
    op.name = "Talk2"
        => LET bytes == <<64 + op.pad, 96 + op.sad>>
           IN  /\ IsPrefixOf(gh.sent, bytes)
               /\ (InFn("SendN") \/ InFn("Send") \/ InFn("SendBits"))
                      => "atn" \in Driven
               /\ InFn("Turnaround") => gh.turn
               /\ gh.turn => /\ gh.sent = bytes
                             /\ gh.acks = 2
                             /\ gh.cmdRet = TRUE
                             /\ gh.cmdSt = STATUS_OK
               /\ (Idle /\ gh.acks < 2) => (~gh.turn /\ ret = FALSE)

C4_Witness ==
    /\ Idle
    /\ op.name = "Talk2"
    /\ op.pad = 30
    /\ op.sad = 31
    /\ gh.sent = <<94, 127>>
    /\ gh.turn
    /\ ret = TRUE

\* C5 (as claimed): Listen(pad) with a responding device clocks out the one
\* byte 0x20|pad with exactly 8 Clock releases under Attention, does no
\* Turnaround, and returns holding Clock and not Data.
C5_ListenEightEdges ==
    (Idle /\ op.name = "Listen" /\ ~gh.nodev)
        => /\ gh.sent = <<32 + op.pad>>
           /\ gh.shreg = <<>>
           /\ gh.edges = 8
           /\ ~gh.turn
           /\ Driven = clkBit

\* C5 (amended): as above, but the Clock releases under Attention are 9: the
\* ready-to-send release of Send and then the 8 bit-valid releases of SendBits.
C5_Listen ==
    (Idle /\ op.name = "Listen" /\ ~gh.nodev)
        => /\ gh.sent = <<32 + op.pad>>
           /\ gh.shreg = <<>>
           /\ gh.edges = 9
           /\ ~gh.turn
           /\ Driven = clkBit

C5_Witness ==
    /\ Idle
    /\ op.name = "Listen"
    /\ op.pad = 30
    /\ ~gh.nodev
    /\ gh.sent = <<62>>
    /\ ret = TRUE

\* C6: for every byte v, GetBits run by a partner against SendBits(v), under
\* the timing of SpecRoundTrip, ends with data = v.
C6_RoundTrip ==
    rx.pc = "done" => rx.data = op.data

C6_Witness ==
    /\ rx.pc = "done"
    /\ op.data = 178
    /\ rx.data = 178
    /\ Idle

\* C7: when Send(byte, eoi) returns, Status = FramingError exactly when the
\* frame-handshake wait (TIME_TF, after the 8 bits) timed out; timeouts of the
\* EOI waits alone do not give FramingError.
C7_FramingError ==
    (At("Send", "ret") \/ (Idle /\ op.name = "Send"))
        => (m_status = STATUS_FRAMMING_ERROR <=> "tf" \in gh.to)

C7_Witness ==
    /\ Idle
    /\ op.name = "Send"
    /\ "tye" \in gh.to
    /\ "tf" \notin gh.to
    /\ m_status # STATUS_FRAMMING_ERROR
    /\ ret = FALSE

\* C8: Reset() first releases every line, then holds Reset, and no other
\* line, for all of its 1000 us delay, returns with no line driven and never
\* writes Status.
C8_Reset ==
    op.name = "Reset"
        => /\ At("Reset", "rst") => Driven = {}
           /\ At("Reset", "hold") => Driven = rstBit
           /\ At("Reset", "end") => (Driven = rstBit /\ gh.held >= RESET_PULSE)
           /\ Idle => (Released /\ gh.held >= RESET_PULSE)
           /\ gh.stWrites = 0

C8_Witness ==
    /\ Idle
    /\ op.name = "Reset"
    /\ gh.was = clkBit
    /\ m_status = STATUS_FRAMMING_ERROR

\* the arguments (data, length, eoi) of the array Send a public call makes
ArrayLength == IF op.name = "SendN" THEN op.length ELSE strlen(op.arr)
ArrayEoi == op.eoi
ArrayData == SubSeq(op.arr, 1, ArrayLength)

\* C9: in Send(array, length, eoi) (and Send(text, eoi)) the k-th byte is
\* sent with eoi = (eoi argument and k is the last index); so the EOI
\* handshake is begun at most once, only for the last byte, and for the last
\* byte exactly when the eoi argument is true.
C9_EoiOnlyLast ==
    op.name \in {"SendN", "SendStr"}
        => /\ Len(gh.eoiLog) <= ArrayLength
           /\ \A k \in 1 .. Len(gh.eoiLog) :
                  gh.eoiLog[k] = (ArrayEoi /\ k = ArrayLength)
           /\ gh.eoiWaits <= 1
           /\ gh.eoiWaits = 1 => (ArrayEoi /\ Len(gh.eoiLog) = ArrayLength)
           /\ (Idle /\ ArrayLength > 0 /\ Len(gh.eoiLog) = ArrayLength)
                  => (gh.eoiWaits = 1 <=> ArrayEoi)

C9_Witness ==
    /\ Idle
    /\ op.name = "SendN"
    /\ op.length = 2
    /\ gh.eoiLog = <<FALSE, TRUE>>
    /\ gh.eoiWaits = 1
    /\ ret = TRUE

\* C10: when Send(array, length, eoi) has returned and byte k was the first
\* whose Send failed, then k was the last byte sent, bytes 0..k are what was
\* clocked out, no line operation followed byte k's Send, the call returned
\* false and Status is the one byte k's Send left.
C10_StopAtFirstFailure ==
    (Idle /\ op.name = "SendN")
        => \A k \in 1 .. Len(gh.resLog) :
               gh.resLog[k].st # STATUS_OK
                   => /\ k = Len(gh.resLog)
                      /\ Len(gh.eoiLog) = k
                      /\ gh.sent = SubSeq(ArrayData, 1, k)
                      /\ gh.shreg = <<>>
                      /\ gh.lineOps = gh.resLog[k].ops
                      /\ ret = FALSE
                      /\ m_status = gh.resLog[k].st

C10_Witness ==
    /\ Idle
    /\ op.name = "SendN"
    /\ op.length = 2
    /\ Len(gh.resLog) = 1
    /\ gh.sent = <<op.arr[1]>>
    /\ m_status = STATUS_FRAMMING_ERROR
    /\ ret = FALSE

\* the public operations that return a boolean
Surface ==
    {"Command", "CommandN", "Talk", "Talk2", "Listen", "Listen2", "Untalk",
     "Unlisten", "Send", "SendN", "SendStr", "Get"}

\* C11 (as claimed): Status after a call does not depend on Status before it:
\* when a public boolean operation has returned and no bounded wait timed out
\* during the call, Status = Ok, whatever the previous call left.
C11_StatusIndependent ==
    (Idle /\ op.name \in Surface /\ gh.timeouts = 0)
        => m_status = STATUS_OK

\* the operations C12 names: Command (both forms), Talk, Listen, Send(byte, eoi)
Compound == {"Command", "CommandN", "Talk", "Talk2", "Listen", "Listen2", "Send"}

\* C12 (as claimed): in Command, Talk, Listen and Send(byte, eoi), once a step
\* of the call has left a non-Ok Status the controller changes no line until
\* the call returns, except by the ReleaseAll of Command's no-device path.
C12_AbortOnFirstFailure ==
    [][(/\ ~Idle
        /\ op.name \in Compound
        /\ gh.stWrites > 0
        /\ m_status # STATUS_OK
        /\ ~InCommand("nodev"))
           => (DDRD' = DDRD /\ PORTD' = PORTD)]_vars

\* C13: when a public boolean operation has returned, the value it returned
\* is true exactly when Status = Ok; so Talk does not return false with
\* Status = Ok nor true with another Status.
C13_ReturnIffOk ==
    (Idle /\ op.name \in Surface)
        => (ret = TRUE <=> m_status = STATUS_OK)

C13_Witness ==
    /\ Idle
    /\ op.name = "Talk"
    /\ gh.turn
    /\ "ack" \in gh.to
    /\ ret = FALSE
    /\ m_status = STATUS_TIMEOUT

\* Turnaround is running (or waiting in its acknowledge wait) at one of lbls
TurnaroundAt(lbls) ==
    \E k \in 1 .. Len(stk) : stk[k][1] = "Turnaround" /\ stk[k][2] \in lbls

\* C14: in Turnaround the controller holds Data when it releases Clock, and
\* from that release to the return it holds Data and neither Clock nor
\* Attention; the acknowledge wait ends without timeout only at a poll where
\* a device holds Clock, and Talk returns true only then; when the wait timed
\* out Talk returns false with Status = Timeout; on both returns the
\* controller holds Data and nothing else.
C14_Turnaround ==
    /\ [](/\ TurnaroundAt({"clk"}) => Driven = clkBit \cup dioBit
          /\ TurnaroundAt({"tdc", "wait", "chk", "tda"}) => Driven = dioBit
          /\ (Idle /\ gh.turn)
                => /\ Driven = dioBit
                   /\ ret = TRUE <=> "ack" \notin gh.to
                   /\ ret = FALSE => m_status = STATUS_TIMEOUT)
    /\ [][(/\ At("WaitAssertionOrTimeout", "loop")
           /\ loc.wname = "ack"
           /\ stk' = Tail(stk)
           /\ ret' = FALSE)
              => "clk" \in dev]_vars

C14_Witness ==
    /\ Idle
    /\ op.name = "Talk2"
    /\ gh.turn
    /\ ret = TRUE
    /\ Driven = dioBit
    /\ "clk" \in dev

\* bit k of byte v
BitOf(v, k) == (v \div (2 ^ k)) % 2
\* bit-valid Clock releases made so far
ClockReleases == Len(gh.shreg) + 8 * Len(gh.sent)
\* the level put on Data at every Clock release so far is the bit of v of
\* that index (asserted = 0), every release of Clock by the controller is one
\* of at most 8, and on exit there were 8 and the controller holds Clock only
SendBitsFrames ==
    op.name = "SendBits"
        => /\ ClockReleases <= 8
           /\ gh.sent # <<>> => gh.sent = <<op.data>>
           /\ \A k \in 1 .. Len(gh.shreg) : gh.shreg[k] = BitOf(op.data, k - 1)
           /\ At("SendBits", "tv")
                 => ("dio" \in Driven <=> BitOf(op.data, ClockReleases - 1) = 0)
           /\ Idle => (ClockReleases = 8 /\ Driven = clkBit)
EveryClockReleaseCounts ==
    ("clk" \in Driven /\ "clk" \notin Driven') => ClockReleases' = ClockReleases + 1
DataChanges == ("dio" \in Driven) # ("dio" \in Driven')

\* C15 (as claimed): SendBits(v), for every byte v, makes exactly 8 Clock
\* releases, Data being asserted at the k-th iff bit k of v is 0, ends holding
\* Clock and not Data, and the controller changes Data only while it holds
\* Clock (so never between a Clock release and the next Clock assertion).
C15_SendBitsFraming ==
    /\ []SendBitsFrames
    /\ [][EveryClockReleaseCounts]_vars
    /\ [][DataChanges => "clk" \in Driven]_vars

\* C15 (amended): as above, but after the 8th Clock release and its
\* data-valid delay the controller releases Data while Clock is still
\* released, and asserts Clock after that.
C15_SendBits ==
    /\ []SendBitsFrames
    /\ [][EveryClockReleaseCounts]_vars
    /\ [][DataChanges => \/ "clk" \in Driven
                         \/ /\ At("SendBits", "end_dio")
                            /\ ClockReleases = 8
                            /\ "dio" \notin Driven']_vars

C15_Witness ==
    /\ Idle
    /\ op.name = "SendBits"
    /\ op.data = 77
    /\ gh.sent = <<77>>
    /\ Driven = clkBit

\* the controller is in the ready-for-data wait of Send(byte, eoi)
AtReadyForData == At("WaitRelease", "loop")
\* the controller is in a bounded wait
InBoundedWait == InFn("WaitAssertionOrTimeout") \/ InFn("WaitReleaseOrTimeout")
\* if the controller stays in a ready-for-data wait, the partner from some
\* time on lets Data go and keeps it so
PartnerReleasesData == <>[]AtReadyForData => <>[]("dio" \notin dev)

\* C16 (as claimed): with the processor running and the clock advancing,
\* every bounded wait ends, a Command whose attention wait finds no device
\* returns, and every public call returns provided the partner lets Data go,
\* and keeps it so, in every ready-for-data wait.
C16_Termination ==
    /\ InBoundedWait ~> ~InBoundedWait
    /\ InCommand("nodev") ~> Idle
    /\ PartnerReleasesData => (~Idle ~> Idle)

\* a poll loop of a bounded wait is running
AtBoundedWait == At("WaitAssertionOrTimeout", "loop") \/ At("WaitReleaseOrTimeout", "loop")
\* the level the running bounded wait waits for is on the lines
AwaitedLevel ==
    IF At("WaitAssertionOrTimeout", "loop") THEN ~isReleased(loc.pins)
    ELSE ~isAsserted(loc.pins)

\* C17: in WaitAssertionOrTimeout and WaitReleaseOrTimeout the elapsed time
\* the code computes mod 2^ClockBits is the time that passed since the wait
\* began, also when micros() wrapped past zero meanwhile, and has not exceeded
\* the timeout while the wait polls; the wait returns timeout, with Status =
\* Timeout, only at a poll that does not read the awaited level and finds more
\* than the timeout elapsed; at a poll that reads the awaited level it
\* returns no-timeout and leaves Status as it was.
C17_WraparoundSafe ==
    /\ [](AtBoundedWait
            => /\ ULongSub(loc.now, loc.initialTime) = loc.elapsed
               /\ loc.elapsed <= loc.timeout)
    /\ [][(AtBoundedWait /\ stk' = Tail(stk))
             => IF AwaitedLevel
                THEN ret' = FALSE /\ m_status' = m_status
                ELSE /\ ret' = TRUE
                     /\ m_status' = STATUS_TIMEOUT
                     /\ loc.elapsed + Tick > loc.timeout]_vars
    /\ [][(AtBoundedWait /\ ~AwaitedLevel /\ loc.elapsed + Tick > loc.timeout)
             => stk' = Tail(stk) \/ UNCHANGED <<stk, loc>>]_vars

C17_Witness ==
    /\ At("WaitReleaseOrTimeout", "loop")
    /\ loc.now < loc.initialTime
    /\ loc.elapsed = 2 * Tick
    /\ loc.elapsed + Tick > loc.timeout
    /\ ~AwaitedLevel

\* line l is low on the bus: the controller or a device pulls it
ReadsLow(l) == l \in Driven \/ l \in dev

\* C18: at every bus level the program meets and for every set of lines,
\* isAsserted is true exactly when all lines of the set read low and
\* isReleased exactly when at least one reads high, so each is the negation
\* of the other; WaitAssertionOrTimeout ends without timeout only at a poll
\* where all queried lines are low, and a poll of WaitReleaseOrTimeout that
\* finds a queried line high ends the wait without timeout.
C18_LineQueries ==
    /\ [](\A pins \in SUBSET Lines :
            /\ isAsserted(pins) <=> \A l \in pins : ReadsLow(l)
            /\ isReleased(pins) <=> \E l \in pins : ~ReadsLow(l)
            /\ isReleased(pins) <=> ~isAsserted(pins))
    /\ [][(/\ At("WaitAssertionOrTimeout", "loop")
           /\ stk' = Tail(stk)
           /\ ret' = FALSE)
              => \A l \in loc.pins : ReadsLow(l)]_vars
    /\ [][(/\ At("WaitReleaseOrTimeout", "loop")
           /\ \E l \in loc.pins : ~ReadsLow(l))
              => \/ stk' = Tail(stk) /\ ret' = FALSE
                 \/ UNCHANGED <<stk, loc>>]_vars

\* Clock is low and Data high: the two queries differ on the set of both
C18_Witness ==
    /\ ReadsLow("clk")
    /\ ~ReadsLow("dio")
    /\ ~isAsserted(clkBit \cup dioBit)
    /\ isReleased(clkBit \cup dioBit)
    /\ isAsserted(clkBit)
    /\ At("WaitReleaseOrTimeout", "loop")

\* C19: when no public call is running the controller does not hold
\* Attention, whichever way the last call ended; it holds Attention only
\* while a Command (either form) is running, and only a step of Command
\* makes it take Attention.
C19_AttentionOnlyInCommand ==
    /\ [](/\ Idle => "atn" \notin Driven
          /\ "atn" \in Driven => (InFn("Command") \/ InFn("CommandN")))
    /\ [][("atn" \notin Driven /\ "atn" \in Driven') => InCommand("atn")]_vars

C19_Witness ==
    /\ Idle
    /\ op.name = "Command"
    /\ m_status = STATUS_FRAMMING_ERROR
    /\ gh.sent = <<op.cmd>>
    /\ "atn" \notin Driven
    /\ Driven = clkBit

\* the controller polls the Data line in one of its waits
WaitingOnData ==
    /\ \/ At("WaitRelease", "loop")
       \/ At("WaitAssertionOrTimeout", "loop")
       \/ At("WaitReleaseOrTimeout", "loop")
    /\ "dio" \in loc.pins

\* C20 (as claimed): whenever the controller waits on the Data line, in
\* Command or in Send, after any sequence of public calls, it does not hold
\* Data itself.
C20_DataNotHeldWhileWaiting ==
    WaitingOnData => "dio" \notin Driven

====
